---- MODULE Spec2Model ----
(***************************************************************************)
(* The two webhook relays of the repository:                               *)
(*   webhook_server.py  POST /webhook       (GitHub push events)           *)
(*   slack_app.py       POST /slack/events  (Slack Events API)             *)
(* Each relay is a separate process with its own environment.  A behaviour *)
(* of Spec follows one relay process: its handler invocations, the         *)
(* outbound kickoff POSTs they issue and, for Slack, the background        *)
(* dispatch threads.                                                       *)
(* SpecCrew follows one object of the crew classes (orchestrator.py,       *)
(* skill_registry_crew/crew.py, test_crew3.py): its construction, the      *)
(* calls of SkillRegistryCrew.run and its destruction.                     *)
(***************************************************************************)
EXTENDS Integers, Sequences, FiniteSets, Bags, TLC

VARIABLES
    relay,      \* which relay process the behaviour follows
    environ,    \* os.environ of the process, read once at import
    calls,      \* per slot: a dispatch that is running (blocked handler or thread)
    exchange,   \* the HTTP exchange completed last: request and response
    vin,        \* SpecVerify: the arguments of the last verify_signature call
    vout,       \* SpecVerify: what that call returned
    deliveries, \* SpecRedelivery: the bag of requests GitHub has delivered
    posts,      \* SpecRedelivery: the bag of POSTs the kickoff service has received
    crew        \* SpecCrew: a crew object, its MCP adapter and its tool calls

vars == <<relay, environ, calls, exchange, vin, vout, deliveries, posts, crew>>

(***************************************************************************)
(* Bounds                                                                  *)
(***************************************************************************)
\* number of dispatches (blocked handlers, background threads) that can be
\* running at the same time
MaxInFlight == 2

Slots == 1..MaxInFlight

(***************************************************************************)
(* Python values                                                           *)
(***************************************************************************)
\* Python's None, also the result of dict.get / os.environ.get on a missing key
None == "<None>"
\* a dict key that is not there (d[k] raises KeyError, d.get(k) gives None)
Absent == "<absent>"
\* a JSON value that is neither a dict nor a string (null, a number, a list)
NonDict == "<nondict>"
NonStr == "<nonstr>"

\* truthiness of a string-or-None value: `not x`
Not(x) == x \in {None, Absent, ""}

\* d.get(k): a missing key reads as None
Get(v) == IF v = Absent THEN None ELSE v

(***************************************************************************)
(* Configuration (module level of both relays)                             *)
(***************************************************************************)
DEFAULT_KICKOFF_URL == "https://mcp-registry-crew-demo-feat-documentation-a.agentic.canary-orion.keboola.dev/kickoff"

\* os.environ.get(name, default)
os_environ_get(env, name, default) ==
    IF env[name] = Absent THEN default ELSE env[name]

GITHUB_SECRET == os_environ_get(environ, "GITHUB_SECRET", None)

KICKOFF_TOKEN == os_environ_get(environ, "KICKOFF_TOKEN", None)

\* a URL without a default on either relay
KICKOFF_URL_no_default == os_environ_get(environ, "KICKOFF_URL", None)

\* webhook_server.py gives the URL a default, slack_app.py does not
KICKOFF_URL ==
    IF relay = "github"
    THEN os_environ_get(environ, "KICKOFF_URL", DEFAULT_KICKOFF_URL)
    ELSE os_environ_get(environ, "KICKOFF_URL", None)

KICKOFF_CREW_NAME ==
    IF relay = "github" THEN "ComponentDocumentationCrew" ELSE "SalesCrew"

allowed_channels == {"C08NA2E9T0W"}

ZERO_COMMIT == "0000000000000000000000000000000000000000"

\* the environments a relay process can be started in
SecretValues == {Absent, "", "s1"}
TokenValues == {Absent, "tok"}
UrlValues == {Absent, "https://kickoff.example/kickoff"}

Environs(r) ==
    [GITHUB_SECRET : IF r = "github" THEN SecretValues ELSE {Absent},
     KICKOFF_TOKEN : TokenValues,
     KICKOFF_URL : UrlValues]

(***************************************************************************)
(* GitHub requests                                                         *)
(***************************************************************************)
\* request.data / request.json.  kind:
\*   "unparsable"  request.json raises (malformed JSON; a content type that is
\*                 not JSON ends in the same HTTP 400, by either 400 branch)
\*   "falsy"       parses to a falsy value ({} , [], null, 0)
\*   "nondict"     parses to a truthy value that is no dict (a non-empty list)
\*   "dict"        a JSON object with the fields below
RefValues == {Absent, "refs/heads/main", "refs/heads/dev"}
\* a commit hash can also arrive as a JSON value that is no string
BeforeValues == {Absent, NonStr, ZERO_COMMIT, "a1a1a1a"}
AfterValues == {Absent, NonStr, ZERO_COMMIT, "b2b2b2b"}
\* payload['repository']: missing, not a dict, a dict without html_url, a dict with it
RepositoryValues ==
    {[repository |-> Absent, html_url |-> Absent],
     [repository |-> NonDict, html_url |-> Absent],
     [repository |-> "dict", html_url |-> Absent],
     [repository |-> "dict", html_url |-> "https://example/org/repo"]}

GithubBodies ==
    {[kind |-> k, ref |-> Absent, before |-> Absent, after |-> Absent,
      repository |-> Absent, html_url |-> Absent] : k \in {"unparsable", "falsy", "nondict"}}
    \cup
    {[kind |-> "dict", ref |-> r, before |-> b, after |-> a,
      repository |-> rp.repository, html_url |-> rp.html_url] :
        r \in RefValues, b \in BeforeValues, a \in AfterValues, rp \in RepositoryValues}

\* a body other than b (what a signature over "another body" was computed on)
OtherBody(b) ==
    IF b.kind = "unparsable"
    THEN [b EXCEPT !.kind = "falsy"]
    ELSE [kind |-> "unparsable", ref |-> Absent, before |-> Absent, after |-> Absent,
          repository |-> Absent, html_url |-> Absent]

\* HMAC-SHA256 as an injective function of key and message
hmac_sha256(key, msg) == <<key, msg>>

\* "sha256=" + hexdigest: a str of ASCII characters naming the digest
Sha256Header(key, msg) ==
    [kind |-> "ascii", prefix |-> "sha256=", digest |-> hmac_sha256(key, msg)]

\* the X-Hub-Signature-256 header: missing, empty, a header holding a
\* non-ASCII character, or a well-formed signature under some key over some body
NoSignature == [kind |-> "none", prefix |-> "", digest |-> <<>>]
EmptySignature == [kind |-> "empty", prefix |-> "", digest |-> <<>>]
NonAsciiSignature == [kind |-> "nonascii", prefix |-> "sha256=", digest |-> <<>>]

SignerKeys == {"", "s1", "s2"}

SignaturesFor(body) ==
    {NoSignature, EmptySignature, NonAsciiSignature}
    \cup {Sha256Header(k, b) : k \in SignerKeys, b \in {body, OtherBody(body)}}

EventTypes == {"push", "ping", "issues", None}

GithubRequests ==
    UNION {[body : {b}, signature : SignaturesFor(b), event : EventTypes] : b \in GithubBodies}

(***************************************************************************)
(* webhook_server.py                                                       *)
(***************************************************************************)
\* hmac.compare_digest on two str: a str with a non-ASCII character raises
\* TypeError, otherwise the result is equality
compare_digest(a, b) ==
    IF a.kind = "nonascii" \/ b.kind = "nonascii" THEN "TypeError"
    ELSE IF a = b THEN "True" ELSE "False"

\* a verifier that computes the digest over something other than the raw body
verify_signature_other_data(payload_body, signature_header) ==
    IF signature_header.kind \in {"none", "empty"} THEN "False"
    ELSE IF Not(GITHUB_SECRET) THEN "False"
    ELSE compare_digest(Sha256Header(GITHUB_SECRET, OtherBody(payload_body)),
                        signature_header)

\* "True", "False", or the exception it lets through
verify_signature(payload_body, signature_header) ==
    IF signature_header.kind \in {"none", "empty"} THEN "False"
    ELSE IF Not(GITHUB_SECRET) THEN "False"
    ELSE LET expected_signature == Sha256Header(GITHUB_SECRET, payload_body)
             cmp == compare_digest(expected_signature, signature_header)
         IN  IF cmp = "False" THEN "False" ELSE cmp

\* the JSON body of a response (jsonify), or the plain text of one
Json(status, message) ==
    [status |-> status, message |-> message, key |-> None,
     kickoff_response |-> None, details |-> None, challenge |-> None]

Response(code, body) == [code |-> code, body |-> body]

\* Flask's answer to an exception no handler caught
InternalServerError == Response(500, Json(None, "Internal Server Error"))

\* an outbound POST that asks the kickoff service to wait
KickoffPost_wait(inputs) ==
    [url |-> KICKOFF_URL,
     Authorization |-> <<"Bearer", KICKOFF_TOKEN>>,
     crew |-> KICKOFF_CREW_NAME,
     inputs |-> inputs,
     wait |-> TRUE,
     timeout |-> 30]

\* the outbound POST: requests.post(KICKOFF_URL, headers=..., json=..., timeout=30)
KickoffPost(inputs) ==
    [url |-> KICKOFF_URL,
     Authorization |-> <<"Bearer", KICKOFF_TOKEN>>,
     crew |-> KICKOFF_CREW_NAME,
     inputs |-> inputs,
     wait |-> FALSE,
     timeout |-> 30]

\* a kickoff that posts without looking at the token
trigger_crew_kickoff_unchecked(repo_url, ref, before, after) ==
    [kind |-> "post",
     post |-> KickoffPost([repository_url |-> repo_url, ref |-> ref,
                           before |-> before, after |-> after,
                           verbose |-> TRUE])]

\* a kickoff that passes the two commits in the wrong order
trigger_crew_kickoff_swapped(repo_url, ref, before, after) ==
    IF Not(KICKOFF_TOKEN)
    THEN [kind |-> "return", success |-> FALSE,
          result |-> "Kickoff token not configured on server.", raised |-> None]
    ELSE [kind |-> "post",
          post |-> [url |-> KICKOFF_URL,
                    Authorization |-> <<"Bearer", KICKOFF_TOKEN>>,
                    crew |-> KICKOFF_CREW_NAME,
                    inputs |-> [repository_url |-> repo_url, ref |-> ref,
                                before |-> after, after |-> before,
                                verbose |-> TRUE],
                    wait |-> FALSE,
                    timeout |-> 30]]

\* trigger_crew_kickoff up to the POST: it returns (False, message) without
\* posting, or issues the POST
trigger_crew_kickoff(repo_url, ref, before, after) ==
    IF Not(KICKOFF_TOKEN)
    THEN [kind |-> "return", success |-> FALSE,
          result |-> "Kickoff token not configured on server.", raised |-> None]
    ELSE [kind |-> "post",
          post |-> KickoffPost([repository_url |-> repo_url, ref |-> ref,
                                before |-> before, after |-> after,
                                verbose |-> TRUE])]

\* what the kickoff service (or the network) does with a POST
\*   raises       the exception of requests.post or raise_for_status
\*   json_raises  the exception of response.json(), for a caller that reads
\*                the body: requests >= 2.27 raises its own JSONDecodeError
\*                (a RequestException), older versions a plain ValueError
Answers ==
    {[kind |-> "2xx_json", json |-> j, raises |-> None, json_raises |-> None] :
        j \in {"{run_id:1}", "{run_id:2}"}}
    \cup {[kind |-> "2xx_other", json |-> None, raises |-> None, json_raises |-> e] :
            e \in {"JSONDecodeError", "ValueError"}}
    \cup {[kind |-> "http_error", json |-> None, raises |-> "HTTPError",
           json_raises |-> None],
          [kind |-> "connection_error", json |-> None, raises |-> "ConnectionError",
           json_raises |-> None],
          [kind |-> "timeout", json |-> None, raises |-> "Timeout",
           json_raises |-> None]}

NoAnswer == [kind |-> "none", json |-> None, raises |-> None, json_raises |-> None]

\* the subclasses of requests.exceptions.RequestException
RequestException == {"HTTPError", "ConnectionError", "Timeout", "JSONDecodeError"}

\* a dispatcher without the last `except Exception`
kickoff_result_request_errors_only(answer) ==
    LET e == IF answer.raises # None THEN answer.raises ELSE answer.json_raises IN
    IF e = None
    THEN [success |-> TRUE, result |-> answer.json, raised |-> None]
    ELSE IF e \in RequestException
    THEN [success |-> FALSE, result |-> "Failed to trigger crew", raised |-> None]
    ELSE [success |-> FALSE, result |-> None, raised |-> e]

\* trigger_crew_kickoff from the POST's return on: (success, result)
\* `raised` is the exception that leaves trigger_crew_kickoff
kickoff_result(answer) ==
    LET e == IF answer.raises # None THEN answer.raises ELSE answer.json_raises IN
    IF e = None
    THEN [success |-> TRUE, result |-> answer.json, raised |-> None]
    ELSE IF e = "HTTPError"
    THEN [success |-> FALSE, result |-> "Failed to trigger crew | Status | Body",
          raised |-> None]
    ELSE IF e \in RequestException
    THEN [success |-> FALSE, result |-> "Failed to trigger crew", raised |-> None]
    ELSE [success |-> FALSE, result |-> "An unexpected error occurred",
          raised |-> None]

MissingKey(k) ==
    Response(400, [Json("error", "Invalid 'push' payload structure, missing key")
                        EXCEPT !.key = k])

UnexpectedError == Response(500, Json("error", "An unexpected error occurred"))

\* the handler's return after trigger_crew_kickoff gave (success, result);
\* an exception out of it would reach the handler's own `except Exception`
kickoff_response(ret) ==
    IF ret.raised # None THEN UnexpectedError
    ELSE IF ret.success
    THEN Response(200, [Json("success", "Crew kickoff triggered")
                            EXCEPT !.kickoff_response = ret.result])
    ELSE Response(500, [Json("error", "Failed to trigger crew kickoff")
                            EXCEPT !.details = ret.result])

\* zero-commit checks that look at one hash only, or want both to be zero
is_zero_commit_before_only(before_commit, after_commit) ==
    before_commit = ZERO_COMMIT

is_zero_commit_both(before_commit, after_commit) ==
    before_commit = ZERO_COMMIT /\ after_commit = ZERO_COMMIT

\* the check for a branch creation or deletion
is_zero_commit(before_commit, after_commit) ==
    before_commit = ZERO_COMMIT \/ after_commit = ZERO_COMMIT

\* a trigger on every event type but `ping`
is_trigger_event_not_ping(event_type) == event_type # "ping"

\* the event type that triggers the crew
is_trigger_event(event_type) == event_type = "push"

\* the `push` branch: field extraction, the zero-commit check, the kickoff
push_event(payload) ==
    IF payload.kind # "dict" THEN [kind |-> "respond", response |-> UnexpectedError]
    ELSE IF payload.ref = Absent THEN [kind |-> "respond", response |-> MissingKey("ref")]
    ELSE IF payload.before = Absent THEN [kind |-> "respond", response |-> MissingKey("before")]
    ELSE IF payload.after = Absent THEN [kind |-> "respond", response |-> MissingKey("after")]
    ELSE IF payload.repository = Absent
    THEN [kind |-> "respond", response |-> MissingKey("repository")]
    ELSE IF payload.repository = NonDict
    THEN [kind |-> "respond", response |-> UnexpectedError]
    ELSE IF payload.html_url = Absent
    THEN [kind |-> "respond", response |-> MissingKey("html_url")]
    ELSE IF is_zero_commit(payload.before, payload.after)
    THEN [kind |-> "respond",
          response |-> Response(200, Json("ignored", "Ignoring push event for new/deleted branch."))]
    ELSE IF payload.before = NonStr \/ payload.after = NonStr
    THEN [kind |-> "respond", response |-> UnexpectedError]
    ELSE LET t == trigger_crew_kickoff(payload.html_url, payload.ref,
                                       payload.before, payload.after)
         IN  IF t.kind = "return"
             THEN [kind |-> "respond", response |-> kickoff_response(t)]
             ELSE t

\* handle_github_webhook up to its return or to the outbound POST
github_handler(req) ==
    LET verified == verify_signature(req.body, req.signature) IN
    IF verified = "TypeError" THEN [kind |-> "respond", response |-> InternalServerError]
    ELSE IF verified = "False"
    THEN [kind |-> "respond", response |-> Response(403, Json("error", "Invalid signature"))]
    ELSE IF req.body.kind = "unparsable"
    THEN [kind |-> "respond",
          response |-> Response(400, Json("error", "Could not parse JSON payload"))]
    ELSE IF req.body.kind = "falsy"
    THEN [kind |-> "respond",
          response |-> Response(400, Json("error", "Invalid JSON payload"))]
    ELSE IF is_trigger_event(req.event) THEN push_event(req.body)
    ELSE IF req.event = "ping"
    THEN [kind |-> "respond",
          response |-> Response(200, Json("success", "Webhook received ping event successfully."))]
    ELSE [kind |-> "respond",
          response |-> Response(200, Json("ignored", "Event type not configured for trigger."))]

Idle == [pc |-> "idle"]

NoExchange == [kind |-> "none"]

FreeSlots == {s \in Slots : calls[s].pc \in {"idle", "done"}}

\* slots are handed out lowest first
FreeSlot == CHOOSE s \in FreeSlots : \A t \in FreeSlots : s <= t

\* a handler that answers as soon as the POST is on its way
while_posting_answered(req, post) ==
    [kind |-> "github", req |-> req,
     response |-> Response(200, Json("success", "Crew kickoff triggered")),
     sent |-> <<post>>, answer |-> NoAnswer]

\* the exchange of a handler that sits in requests.post: trigger_crew_kickoff
\* is called in line, so there is no response yet
while_posting(req, post) == NoExchange

\* POST /webhook arrives: the handler runs until it returns, or until it
\* blocks in requests.post
\* a handler that keeps the deliveries it has seen and ignores a repeat
github_request_deduplicated(req) ==
    LET out == github_handler(req) IN
    IF out.kind = "respond" \/ BagIn(req, deliveries)
    THEN /\ exchange' = [kind |-> "github", req |-> req,
                         response |-> IF out.kind = "respond" THEN out.response
                                      ELSE Response(200, Json("ignored", "Duplicate delivery.")),
                         sent |-> <<>>, answer |-> NoAnswer]
         /\ UNCHANGED calls
    ELSE /\ FreeSlots # {}
         /\ calls' = [calls EXCEPT ![FreeSlot] =
                         [pc |-> "posting", req |-> req, sent |-> <<out.post>>]]
         /\ exchange' = while_posting(req, out.post)

\* one run of handle_github_webhook on the request req
github_request(req) ==
    LET out == github_handler(req) IN
    IF out.kind = "respond"
    THEN /\ exchange' = [kind |-> "github", req |-> req,
                         response |-> out.response, sent |-> <<>>,
                         answer |-> NoAnswer]
         /\ UNCHANGED calls
    ELSE /\ FreeSlots # {}
         /\ calls' = [calls EXCEPT ![FreeSlot] =
                         [pc |-> "posting", req |-> req, sent |-> <<out.post>>]]
         /\ exchange' = while_posting(req, out.post)

handle_github_webhook ==
    /\ relay = "github"
    /\ exchange = NoExchange
    /\ \E req \in GithubRequests : github_request(req)
    /\ UNCHANGED <<relay, environ, vin, vout, deliveries, posts, crew>>

\* the outbound POST of a blocked handler returns, fails or times out, and
\* the handler returns its response
github_kickoff_returns(s) ==
    /\ relay = "github"
    /\ exchange = NoExchange
    /\ calls[s].pc = "posting"
    /\ \E answer \in Answers :
         exchange' = [kind |-> "github", req |-> calls[s].req,
                      response |-> kickoff_response(kickoff_result(answer)),
                      sent |-> calls[s].sent, answer |-> answer]
    /\ calls' = [calls EXCEPT ![s] = Idle]
    /\ UNCHANGED <<relay, environ, vin, vout, deliveries, posts, crew>>

(***************************************************************************)
(* Slack requests                                                          *)
(***************************************************************************)
\* request.is_json / request.json.  kind:
\*   "nonjson"     the content type is not JSON (request.is_json is False)
\*   "unparsable"  JSON content type, malformed body (request.json raises BadRequest)
\*   "nondict"     parses to a value that is no dict (null, a list, a number)
\*   "dict"        a JSON object with the fields below
SlackTypes == {Absent, "url_verification", "event_callback", "block_actions"}
ChallengeValues == {Absent, "", "abc123"}
ChannelValues == {Absent, "C08NA2E9T0W", "C0OTHER"}
\* event.text: missing, empty, a message, or a JSON number
TextValues == {Absent, "", "hi", "yo", NonStr}
BotIdValues == {Absent, "B1"}
InnerTypes == {"message", "reaction_added"}

\* payload["event"]: missing, not a dict (null, a string), or a dict
SlackEvents ==
    {[kind |-> k, type |-> Absent, text |-> Absent, bot_id |-> Absent] :
        k \in {Absent, NonDict}}
    \cup [kind : {"dict"}, type : InnerTypes, text : TextValues, bot_id : BotIdValues]

SlackBodies ==
    {[kind |-> k, type |-> Absent, challenge |-> Absent, channel |-> Absent,
      event |-> [kind |-> Absent, type |-> Absent, text |-> Absent, bot_id |-> Absent]] :
        k \in {"nonjson", "unparsable", "nondict"}}
    \cup [kind : {"dict"}, type : SlackTypes, challenge : ChallengeValues,
          channel : ChannelValues, event : SlackEvents]

SlackRequests == [body : SlackBodies]

(***************************************************************************)
(* slack_app.py                                                            *)
(***************************************************************************)
\* werkzeug's answer to a JSON body that does not parse
BadRequest == Response(400, Json(None, "Bad Request"))

\* the handler's return value: the response and, when a dispatch thread was
\* started, the thread's argument
Reply(response) == [response |-> response, start |-> FALSE, text |-> None]

\* a dispatch on every channel that is named at all
channel_allowed_any(channel) == ~Not(channel)

\* the allow-list check
channel_allowed(channel) == channel \in allowed_channels

\* a filter that lets bot messages through
is_user_message_any_sender(message_type, text, bot_id) ==
    message_type = "message" /\ ~Not(text)

\* the filter for user messages: a message with text and without bot_id
is_user_message(message_type, text, bot_id) ==
    message_type = "message" /\ ~Not(text) /\ Not(bot_id)

\* an acknowledgement that reports the dispatch run_crew_async will skip
accepted_after_dispatch(text) ==
    [response |-> IF Not(KICKOFF_TOKEN) \/ Not(KICKOFF_URL)
                  THEN Response(500, Json(None, ""))
                  ELSE Response(200, Json(None, "")),
     start |-> TRUE, text |-> text]

\* an accepted message: the thread is started, then Response(status=200)
\* is returned without a join
accepted(text) ==
    [response |-> Response(200, Json(None, "")), start |-> TRUE, text |-> text]

\* step 3 of slack_events: an event_callback
event_callback(payload) ==
    IF payload.event.kind = NonDict THEN Reply(InternalServerError)
    ELSE LET event == payload.event
             message_type == Get(event.type)
             text == Get(event.text)
             bot_id == Get(event.bot_id)
         IN  IF channel_allowed(Get(payload.channel))
             THEN IF is_user_message(message_type, text, bot_id)
                  THEN IF text = NonStr
                       THEN Reply(InternalServerError)
                       ELSE accepted(text)
                  ELSE Reply(Response(200, Json(None, "")))
             ELSE Reply(Response(400, Json(None, "Unhandled event type")))

\* a challenge reply that does not look whether there is a challenge
url_verification_unchecked(payload) ==
    Reply(Response(200, [Json(None, "") EXCEPT !.challenge = Get(payload.challenge)]))

\* step 1 of slack_events: the URL verification challenge
url_verification(payload) ==
    LET challenge == Get(payload.challenge) IN
    IF ~Not(challenge)
    THEN Reply(Response(200, [Json(None, "") EXCEPT !.challenge = challenge]))
    ELSE Reply(Response(400, Json(None, "Challenge missing")))

\* slack_events: the whole handler
slack_handler(req) ==
    LET payload == req.body IN
    IF payload.kind = "nonjson" THEN Reply(Response(400, Json(None, "Request must be JSON")))
    ELSE IF payload.kind = "unparsable" THEN Reply(BadRequest)
    ELSE IF payload.kind = "nondict" THEN Reply(InternalServerError)
    ELSE IF Get(payload.type) = "url_verification" THEN url_verification(payload)
    ELSE IF Get(payload.type) = "event_callback" THEN event_callback(payload)
    ELSE Reply(Response(400, Json(None, "Unhandled event type")))

\* POST /slack/events arrives: the handler runs to its return; an accepted
\* message starts the background thread first
slack_request(req) ==
    LET out == slack_handler(req) IN
    IF out.start
    THEN /\ FreeSlots # {}
         /\ calls' = [calls EXCEPT ![FreeSlot] =
                         [pc |-> "started", text |-> out.text, sent |-> <<>>]]
         /\ exchange' = [kind |-> "slack", req |-> req,
                         response |-> out.response, thread |-> FreeSlot]
    ELSE /\ exchange' = [kind |-> "slack", req |-> req,
                         response |-> out.response, thread |-> 0]
         /\ UNCHANGED calls

slack_events ==
    /\ relay = "slack"
    /\ exchange = NoExchange
    /\ \E req \in SlackRequests : slack_request(req)
    /\ UNCHANGED <<relay, environ, vin, vout, deliveries, posts, crew>>

\* the requests that are well-formed event callbacks: a message or a
\* reaction, from a user or a bot, in the allowed channel or in another one
MessageRequests ==
    {req \in SlackRequests :
        /\ req.body.kind = "dict"
        /\ req.body.type = "event_callback"
        /\ req.body.challenge = Absent
        /\ req.body.channel # Absent
        /\ req.body.event.kind = "dict"
        /\ req.body.event.text # NonStr}

\* POST /slack/events with an event callback
slack_message_events ==
    /\ relay = "slack"
    /\ exchange = NoExchange
    /\ \E req \in MessageRequests : slack_request(req)
    /\ UNCHANGED <<relay, environ, vin, vout, deliveries, posts, crew>>

\* a thread that reads the message from the request handled last, not
\* from its own argument
run_crew_async_last_request(slack_message_text) ==
    IF Not(KICKOFF_TOKEN) THEN [kind |-> "return"]
    ELSE IF Not(KICKOFF_URL) THEN [kind |-> "return"]
    ELSE [kind |-> "post",
          post |-> KickoffPost([initial_message |->
                                    IF exchange.kind = "slack"
                                    THEN exchange.req.body.event.text
                                    ELSE slack_message_text,
                                verbose |-> TRUE])]

\* a thread that posts the log line's truncated text, not the message
run_crew_async_truncated(slack_message_text) ==
    IF Not(KICKOFF_TOKEN) THEN [kind |-> "return"]
    ELSE IF Not(KICKOFF_URL) THEN [kind |-> "return"]
    ELSE [kind |-> "post",
          post |-> KickoffPost([initial_message |-> "h", verbose |-> TRUE])]

\* run_crew_async up to the POST: it returns without posting, or issues the POST
run_crew_async(slack_message_text) ==
    IF Not(KICKOFF_TOKEN) THEN [kind |-> "return"]
    ELSE IF Not(KICKOFF_URL) THEN [kind |-> "return"]
    ELSE [kind |-> "post",
          post |-> KickoffPost([initial_message |-> slack_message_text,
                                verbose |-> TRUE])]

\* run_crew_async from the POST's return on: what it logs.  raise_for_status
\* passes every 2xx, the body is not read, every exception is caught
thread_result(answer) ==
    IF answer.raises = None THEN "info: successful"
    ELSE IF answer.raises \in RequestException THEN "error"
    ELSE "exception"

\* a thread that posts again after a failed POST
thread_after_post_retry(call, answer) ==
    IF thread_result(answer) = "error"
    THEN [pc |-> "posting", text |-> call.text,
          sent |-> Append(call.sent, call.sent[1])]
    ELSE [pc |-> "done", text |-> call.text, sent |-> call.sent,
          log |-> thread_result(answer)]

\* a thread whose POST has no timeout and never comes back
thread_after_post_hangs(call, answer) == call

\* the thread once its POST is over: run_crew_async returns, the thread ends
thread_after_post(call, answer) ==
    [pc |-> "done", text |-> call.text, sent |-> call.sent,
     log |-> thread_result(answer)]

\* the background thread runs run_crew_async up to the POST
thread_runs(s) ==
    /\ relay = "slack"
    /\ calls[s].pc = "started"
    /\ LET out == run_crew_async(calls[s].text) IN
       calls' = [calls EXCEPT ![s] =
                    IF out.kind = "return"
                    THEN [pc |-> "done", text |-> calls[s].text, sent |-> <<>>,
                          log |-> "error"]
                    ELSE [pc |-> "posting", text |-> calls[s].text,
                          sent |-> <<out.post>>]]
    /\ UNCHANGED <<relay, environ, exchange, vin, vout, deliveries, posts, crew>>

\* the thread's POST returns, fails or times out: every outcome is logged
\* and the thread ends
thread_kickoff_returns(s) ==
    /\ relay = "slack"
    /\ calls[s].pc = "posting"
    /\ \E answer \in Answers :
         calls' = [calls EXCEPT ![s] = thread_after_post(calls[s], answer)]
    /\ UNCHANGED <<relay, environ, exchange, vin, vout, deliveries, posts, crew>>

(***************************************************************************)
(* Specification                                                           *)
(***************************************************************************)
NoCall == [kind |-> "none"]

NoCrew == [class |-> "none", pc |-> "none"]

\* the client has read the response: the exchange is over
close_exchange ==
    /\ exchange # NoExchange
    /\ exchange' = NoExchange
    /\ UNCHANGED <<relay, environ, calls, vin, vout, deliveries, posts, crew>>

Init ==
    /\ relay \in {"github", "slack"}
    /\ environ \in Environs(relay)
    /\ calls = [s \in Slots |-> Idle]
    /\ exchange = NoExchange
    /\ vin = NoCall
    /\ vout = None
    /\ deliveries = EmptyBag
    /\ posts = EmptyBag
    /\ crew = NoCrew

Next ==
    \/ handle_github_webhook
    \/ \E s \in Slots : github_kickoff_returns(s)
    \/ slack_events
    \/ \E s \in Slots : thread_runs(s)
    \/ \E s \in Slots : thread_kickoff_returns(s)
    \/ close_exchange

Spec == Init /\ [][Next]_vars

(***************************************************************************)
(* The Slack relay receiving event callbacks, under fair scheduling: a     *)
(* started thread gets to run, and requests.post (timeout=30) returns or   *)
(* raises                                                                  *)
(***************************************************************************)
InitSlack ==
    /\ relay = "slack"
    /\ environ \in Environs("slack")
    /\ calls = [s \in Slots |-> Idle]
    /\ exchange = NoExchange
    /\ vin = NoCall
    /\ vout = None
    /\ deliveries = EmptyBag
    /\ posts = EmptyBag
    /\ crew = NoCrew

NextSlack ==
    \/ slack_message_events
    \/ \E s \in Slots : thread_runs(s)
    \/ \E s \in Slots : thread_kickoff_returns(s)
    \/ close_exchange

SpecSlackFair ==
    /\ InitSlack
    /\ [][NextSlack]_vars
    /\ \A s \in Slots : WF_vars(thread_runs(s)) /\ WF_vars(thread_kickoff_returns(s))

(***************************************************************************)
(* verify_signature on its own: every secret, body and header              *)
(***************************************************************************)
VerifySecrets == {Absent, "", "s1", "s2"}

VerifyBodies ==
    {b \in GithubBodies :
        \/ b.kind # "dict"
        \/ /\ b.ref # "refs/heads/dev"
           /\ b.before \in {Absent, "a1a1a1a"}
           /\ b.after = "b2b2b2b"
           /\ b.repository = "dict"}

VerifyHeaders ==
    {NoSignature, EmptySignature, NonAsciiSignature}
    \cup {Sha256Header(k, b) : k \in SignerKeys, b \in VerifyBodies}

InitVerify ==
    /\ relay = "github"
    /\ environ \in [GITHUB_SECRET : VerifySecrets, KICKOFF_TOKEN : {Absent},
                    KICKOFF_URL : {Absent}]
    /\ calls = [s \in Slots |-> Idle]
    /\ exchange = NoExchange
    /\ vin = NoCall
    /\ vout = None
    /\ deliveries = EmptyBag
    /\ posts = EmptyBag
    /\ crew = NoCrew

call_verify_signature ==
    /\ \E b \in VerifyBodies, h \in VerifyHeaders :
         /\ vin' = [kind |-> "call", payload_body |-> b, signature_header |-> h]
         /\ vout' = verify_signature(b, h)
    /\ UNCHANGED <<relay, environ, calls, exchange, deliveries, posts, crew>>

NextVerify == call_verify_signature

SpecVerify == InitVerify /\ [][NextVerify]_vars

(***************************************************************************)
(* The GitHub relay under redelivery: GitHub delivers signed push events,  *)
(* each any number of times; the deliveries and the POSTs that reach the   *)
(* kickoff service are recorded                                            *)
(***************************************************************************)
\* number of deliveries GitHub makes
MaxDeliveries == 3

\* complete push payloads with non-zero hashes
PushBodies ==
    {[kind |-> "dict", ref |-> r, before |-> "a1a1a1a", after |-> "b2b2b2b",
      repository |-> "dict", html_url |-> "https://example/org/repo"] :
        r \in {"refs/heads/main", "refs/heads/dev"}}

\* the push events as GitHub signs them with the configured secret
SignedPushes ==
    {[body |-> b, signature |-> Sha256Header(GITHUB_SECRET, b), event |-> "push"] :
        b \in PushBodies}

InitRedelivery ==
    /\ relay = "github"
    /\ environ \in {e \in Environs("github") : e.GITHUB_SECRET = "s1"}
    /\ calls = [s \in Slots |-> Idle]
    /\ exchange = NoExchange
    /\ vin = NoCall
    /\ vout = None
    /\ deliveries = EmptyBag
    /\ posts = EmptyBag
    /\ crew = NoCrew

\* GitHub delivers a push, for the first time or again; a POST the handler
\* issues reaches the kickoff service
deliver_push ==
    /\ relay = "github"
    /\ exchange = NoExchange
    /\ BagCardinality(deliveries) < MaxDeliveries
    /\ \E req \in SignedPushes :
         /\ github_request(req)
         /\ deliveries' = deliveries (+) SetToBag({req})
         /\ posts' = posts (+) SetToBag({calls'[s].sent[1] :
                                           s \in {t \in Slots : /\ calls[t].pc # "posting"
                                                                /\ calls'[t].pc = "posting"}})
    /\ UNCHANGED <<relay, environ, vin, vout, crew>>

NextRedelivery ==
    \/ deliver_push
    \/ \E s \in Slots : github_kickoff_returns(s)
    \/ close_exchange

SpecRedelivery == InitRedelivery /\ [][NextRedelivery]_vars

(***************************************************************************)
(* The crew classes (orchestrator.py, skill_registry_crew/crew.py,         *)
(* test_crew3.py): a crew object opens an MCP adapter in its constructor   *)
(* and closes it in its destructor.  The adapter is library code; the      *)
(* model counts the calls of its __enter__ and __exit__.                   *)
(***************************************************************************)
CrewClasses == {"LeadManagementCrew", "SkillRegistryCrew", "ComponentDocumentationCrew"}

\* the tools an MCP server can offer
ToolNames == {"hubspot_create_contact", "hubspot_create_opportunity", "hubspot_search"}

CrewEnvirons == [SKILL_REGISTRY_TOKEN : {Absent, "srt"}, OPENAI_API_KEY : {Absent, "sk"}]

\* a crew object.  pc: "constructed", "failed" (the constructor raised),
\* "destroyed" (__del__ has run).  attr: the object has the attribute that
\* __del__ looks for.  enters: connections __enter__ has opened.  exits:
\* calls of __exit__.  operation, tool_results, invoked, outcome: the last
\* call of run, what the tools answered, the tools it ran in order, and
\* whether it returned or raised
CrewObject(class, pc, attr, enters, exits, mcp_tools) ==
    [class |-> class, pc |-> pc, attr |-> attr, enters |-> enters, exits |-> exits,
     mcp_tools |-> mcp_tools, operation |-> None, tool_results |-> None,
     invoked |-> <<>>, outcome |-> None]

\* LeadManagementCrew.__init__: the adapter stays in a local variable
LeadManagementCrew_init(env, connect, tools) ==
    IF Not(Get(env.SKILL_REGISTRY_TOKEN))
    THEN CrewObject("LeadManagementCrew", "failed", FALSE, 0, 0, {})
    ELSE IF Not(Get(env.OPENAI_API_KEY))
    THEN CrewObject("LeadManagementCrew", "failed", FALSE, 0, 0, {})
    ELSE IF connect = "fails"
    THEN CrewObject("LeadManagementCrew", "failed", FALSE, 0, 0, {})
    ELSE CrewObject("LeadManagementCrew", "constructed", FALSE, 1, 0, tools)

\* SkillRegistryCrew.__init__: self._mcp_adapt is set after __enter__
SkillRegistryCrew_init(env, connect, tools) ==
    IF Not(Get(env.SKILL_REGISTRY_TOKEN))
    THEN CrewObject("SkillRegistryCrew", "failed", FALSE, 0, 0, {})
    ELSE IF connect = "fails"
    THEN CrewObject("SkillRegistryCrew", "failed", FALSE, 0, 0, {})
    ELSE CrewObject("SkillRegistryCrew", "constructed", TRUE, 1, 0, tools)

\* ComponentDocumentationCrew.__init__: self._mcp_adapt_docs is set before
\* __enter__; a failed __enter__ is followed by __exit__ and a re-raise
ComponentDocumentationCrew_init(env, connect, tools) ==
    IF Not(Get(env.SKILL_REGISTRY_TOKEN))
    THEN CrewObject("ComponentDocumentationCrew", "failed", FALSE, 0, 0, {})
    ELSE IF Not(Get(env.OPENAI_API_KEY))
    THEN CrewObject("ComponentDocumentationCrew", "failed", FALSE, 0, 0, {})
    ELSE IF connect = "fails"
    THEN CrewObject("ComponentDocumentationCrew", "failed", TRUE, 0, 1, {})
    ELSE CrewObject("ComponentDocumentationCrew", "constructed", TRUE, 1, 0, tools)

\* __del__ of the three classes: __exit__ when the attribute is there
crew_del(obj) ==
    [obj EXCEPT !.pc = "destroyed",
                !.exits = IF obj.attr THEN obj.exits + 1 ELSE obj.exits]

\* what a tool's run() does: it raises, or returns a result
ToolResults == {"ToolError", "id-1", "id-2"}

Operations == {"hubspot-contact", "hubspot-opportunity", "hubspot-all", "hubspot-delete"}

Raise(invoked, error) == [invoked |-> invoked, kind |-> "raise", value |-> error]

Return(invoked, value) == [invoked |-> invoked, kind |-> "return", value |-> value]

\* a lookup that takes some other tool when the contact tool is missing
create_hubspot_contact_fallback(mcp_tools, result) ==
    IF mcp_tools = {}
    THEN Raise(<<>>, "HubSpot create contact tool not found in MCP tools")
    ELSE LET tool == IF "hubspot_create_contact" \in mcp_tools
                     THEN "hubspot_create_contact"
                     ELSE CHOOSE t \in mcp_tools : TRUE
         IN  IF result = "ToolError"
             THEN Raise(<<tool>>, "ToolError")
             ELSE Return(<<tool>>, result)

\* create_hubspot_contact: the tool is looked up by name and run
create_hubspot_contact(mcp_tools, result) ==
    IF "hubspot_create_contact" \notin mcp_tools
    THEN Raise(<<>>, "HubSpot create contact tool not found in MCP tools")
    ELSE IF result = "ToolError"
    THEN Raise(<<"hubspot_create_contact">>, "ToolError")
    ELSE Return(<<"hubspot_create_contact">>, result)

\* create_hubspot_opportunity: likewise
create_hubspot_opportunity(mcp_tools, result) ==
    IF "hubspot_create_opportunity" \notin mcp_tools
    THEN Raise(<<>>, "HubSpot create opportunity tool not found in MCP tools")
    ELSE IF result = "ToolError"
    THEN Raise(<<"hubspot_create_opportunity">>, "ToolError")
    ELSE Return(<<"hubspot_create_opportunity">>, result)

\* a run that goes on to the opportunity after a failed contact creation
SkillRegistryCrew_run_both_always(operation, mcp_tools, results) ==
    LET c == create_hubspot_contact(mcp_tools, results.contact)
        o == create_hubspot_opportunity(mcp_tools, results.opportunity)
    IN  IF operation = "hubspot-contact" THEN c
        ELSE IF operation = "hubspot-opportunity" THEN o
        ELSE IF operation = "hubspot-all"
        THEN IF c.kind = "raise" THEN Raise(c.invoked \o o.invoked, c.value)
             ELSE IF o.kind = "raise" THEN Raise(c.invoked \o o.invoked, o.value)
             ELSE Return(c.invoked \o o.invoked,
                         [contact |-> c.value, opportunity |-> o.value])
        ELSE Raise(<<>>, "Unknown operation")

\* SkillRegistryCrew.run: every exception is printed and raised again
SkillRegistryCrew_run(operation, mcp_tools, results) ==
    IF operation = "hubspot-contact"
    THEN create_hubspot_contact(mcp_tools, results.contact)
    ELSE IF operation = "hubspot-opportunity"
    THEN create_hubspot_opportunity(mcp_tools, results.opportunity)
    ELSE IF operation = "hubspot-all"
    THEN LET c == create_hubspot_contact(mcp_tools, results.contact) IN
         IF c.kind = "raise" THEN c
         ELSE LET o == create_hubspot_opportunity(mcp_tools, results.opportunity) IN
              IF o.kind = "raise"
              THEN Raise(c.invoked \o o.invoked, o.value)
              ELSE Return(c.invoked \o o.invoked,
                          [contact |-> c.value, opportunity |-> o.value])
    ELSE Raise(<<>>, "Unknown operation")

InitCrew ==
    /\ relay = "github"
    /\ environ \in [GITHUB_SECRET : {Absent}, KICKOFF_TOKEN : {Absent},
                    KICKOFF_URL : {Absent}]
    /\ calls = [s \in Slots |-> Idle]
    /\ exchange = NoExchange
    /\ vin = NoCall
    /\ vout = None
    /\ deliveries = EmptyBag
    /\ posts = EmptyBag
    /\ crew = NoCrew

\* a crew object is constructed; the constructor returns or raises
construct ==
    /\ crew.pc \in {"none", "destroyed"}
    /\ \E class \in CrewClasses, env \in CrewEnvirons, connect \in {"ok", "fails"},
          tools \in SUBSET ToolNames :
         crew' = IF class = "LeadManagementCrew"
                 THEN LeadManagementCrew_init(env, connect, tools)
                 ELSE IF class = "SkillRegistryCrew"
                 THEN SkillRegistryCrew_init(env, connect, tools)
                 ELSE ComponentDocumentationCrew_init(env, connect, tools)
    /\ UNCHANGED <<relay, environ, calls, exchange, vin, vout, deliveries, posts>>

\* the object is garbage-collected: __del__ runs, also after a constructor
\* that raised
destroy ==
    /\ crew.pc \in {"constructed", "failed"}
    /\ crew' = crew_del(crew)
    /\ UNCHANGED <<relay, environ, calls, exchange, vin, vout, deliveries, posts>>

\* run is called on a SkillRegistryCrew object
run_operation ==
    /\ crew.class = "SkillRegistryCrew"
    /\ crew.pc = "constructed"
    /\ \E operation \in Operations, results \in [contact : ToolResults,
                                                  opportunity : ToolResults] :
         LET r == SkillRegistryCrew_run(operation, crew.mcp_tools, results) IN
         crew' = [crew EXCEPT !.operation = operation, !.tool_results = results,
                              !.invoked = r.invoked,
                              !.outcome = [kind |-> r.kind, value |-> r.value]]
    /\ UNCHANGED <<relay, environ, calls, exchange, vin, vout, deliveries, posts>>

NextCrew ==
    \/ construct
    \/ run_operation
    \/ destroy

SpecCrew == InitCrew /\ [][NextCrew]_vars

(***************************************************************************)
(* Vocabulary of the properties                                            *)
(***************************************************************************)
\* the runs of handle_github_webhook the state holds: the exchange completed
\* last (done) and the handlers blocked in their POST
GithubRuns ==
    (IF exchange.kind = "github"
     THEN {[req |-> exchange.req, sent |-> exchange.sent, done |-> TRUE]}
     ELSE {})
    \cup {[req |-> calls[s].req, sent |-> calls[s].sent, done |-> FALSE] :
            s \in {t \in Slots : relay = "github" /\ calls[t].pc = "posting"}}

\* every outbound POST the state holds
AllSent ==
    UNION {{calls[s].sent[i] : i \in 1..Len(calls[s].sent)} :
             s \in {t \in Slots : calls[t].pc # "idle"}}
    \cup (IF exchange.kind = "github"
          THEN {exchange.sent[i] : i \in 1..Len(exchange.sent)}
          ELSE {})

SecretConfigured == environ.GITHUB_SECRET \notin {Absent, ""}

TokenConfigured == environ.KICKOFF_TOKEN \notin {Absent, ""}

\* the header GitHub sends for this body under the configured secret
ValidlySigned(req) ==
    /\ SecretConfigured
    /\ req.signature = Sha256Header(environ.GITHUB_SECRET, req.body)

ZeroHash(body) ==
    /\ body.kind = "dict"
    /\ body.before = ZERO_COMMIT \/ body.after = ZERO_COMMIT

AllFieldsPresent(body) ==
    /\ body.kind = "dict"
    /\ body.ref # Absent /\ body.before # Absent /\ body.after # Absent
    /\ body.repository = "dict" /\ body.html_url # Absent

\* a push the relay is to dispatch
AcceptablePush(req) ==
    /\ ValidlySigned(req)
    /\ req.event = "push"
    /\ AllFieldsPresent(req.body)
    /\ req.body.before \notin {ZERO_COMMIT, NonStr}
    /\ req.body.after \notin {ZERO_COMMIT, NonStr}

\* a request the relay is to reject or ignore
GithubRejected(req) ==
    \/ ~ValidlySigned(req)
    \/ req.event # "push"
    \/ ZeroHash(req.body)

ConfiguredUrl ==
    IF environ.KICKOFF_URL = Absent
    THEN IF relay = "github" THEN DEFAULT_KICKOFF_URL ELSE None
    ELSE environ.KICKOFF_URL

(***************************************************************************)
(* C1: every inbound request causes at most one outbound kickoff POST,     *)
(* also when the POST fails (nothing is retried), and a rejected request   *)
(* (bad signature, event type other than push, zero-hash before/after,     *)
(* channel outside the allow-list) causes none.                            *)
(***************************************************************************)
C1_AtMostOneKickoff ==
    /\ \A s \in Slots : calls[s].pc # "idle" => Len(calls[s].sent) <= 1
    /\ \A run \in GithubRuns :
         /\ Len(run.sent) <= 1
         /\ GithubRejected(run.req) => run.sent = <<>> /\ run.done
    /\ exchange.kind = "slack" /\ Get(exchange.req.body.channel) # "C08NA2E9T0W"
         => exchange.thread = 0

\* a POST failed and its thread ended with that single attempt
C1_Witness ==
    \E s \in Slots :
        /\ calls[s].pc = "done"
        /\ Len(calls[s].sent) = 1
        /\ calls[s].log = "error"

(***************************************************************************)
(* C2: on POST /webhook a missing signature header, an unconfigured        *)
(* GITHUB_SECRET or a header that differs from the expected signature      *)
(* gives HTTP 403 and no dispatch, for every event type and body.          *)
(***************************************************************************)
C2_BadSignatureIs403 ==
    \A run \in GithubRuns :
        (\/ run.req.signature.kind = "none"
         \/ ~SecretConfigured
         \/ run.req.signature # Sha256Header(environ.GITHUB_SECRET, run.req.body))
        => /\ run.done
           /\ exchange.response.code = 403
           /\ run.sent = <<>>

(***************************************************************************)
(* C3: verify_signature accepts body B with the header                     *)
(* "sha256=" + hex(HMAC(S, B)) and rejects B with the header computed over *)
(* any other body B'.  As claimed: for all secrets S.  As amended: for all *)
(* non-empty secrets S.  (Specification SpecVerify.)                       *)
(***************************************************************************)
VerifyRoundTrip ==
    LET S == environ.GITHUB_SECRET
        B == vin.payload_body
    IN  /\ vin.signature_header = Sha256Header(S, B) => vout = "True"
        /\ \A B2 \in VerifyBodies \ {B} :
             vin.signature_header = Sha256Header(S, B2) => vout = "False"

C3_VerifyEverySecret ==
    vin.kind = "call" /\ environ.GITHUB_SECRET # Absent => VerifyRoundTrip

C3_VerifyNonEmptySecret ==
    vin.kind = "call" /\ SecretConfigured => VerifyRoundTrip

C3_Witness ==
    /\ vin.kind = "call"
    /\ environ.GITHUB_SECRET = "s1"
    /\ vin.signature_header = Sha256Header("s1", vin.payload_body)
    /\ vout = "True"

(***************************************************************************)
(* C4: a push event whose before or after is the 40-zero hash never        *)
(* triggers a kickoff dispatch, whatever the other payload fields are.     *)
(***************************************************************************)
C4_ZeroCommitNeverDispatched ==
    \A run \in GithubRuns :
        run.req.event = "push" /\ ZeroHash(run.req.body)
        => run.sent = <<>> /\ run.done

\* a complete, validly signed push with a zero `after` went through the
\* handler of a relay that could have dispatched it
C4_Witness ==
    /\ exchange.kind = "github"
    /\ TokenConfigured
    /\ ValidlySigned(exchange.req)
    /\ exchange.req.event = "push"
    /\ AllFieldsPresent(exchange.req.body)
    /\ exchange.req.body.before = "a1a1a1a"
    /\ exchange.req.body.after = ZERO_COMMIT
    /\ exchange.sent = <<>>

(***************************************************************************)
(* C5: a validly signed push event whose before or after is the 40-zero    *)
(* hash is answered with HTTP 200, status "ignored", and not dispatched.   *)
(* As claimed: every such event.  As amended: every such event that holds  *)
(* all four required fields.                                               *)
(***************************************************************************)
ZeroCommitIgnored ==
    /\ exchange.response.code = 200
    /\ exchange.response.body.status = "ignored"
    /\ exchange.sent = <<>>

C5_ZeroCommitIgnored ==
    /\ exchange.kind = "github"
    /\ ValidlySigned(exchange.req)
    /\ exchange.req.event = "push"
    /\ ZeroHash(exchange.req.body)
    => ZeroCommitIgnored

C5_CompleteZeroCommitIgnored ==
    /\ exchange.kind = "github"
    /\ ValidlySigned(exchange.req)
    /\ exchange.req.event = "push"
    /\ ZeroHash(exchange.req.body)
    /\ AllFieldsPresent(exchange.req.body)
    => ZeroCommitIgnored

C5_Witness ==
    /\ exchange.kind = "github"
    /\ ValidlySigned(exchange.req)
    /\ exchange.req.event = "push"
    /\ AllFieldsPresent(exchange.req.body)
    /\ exchange.req.body.before = ZERO_COMMIT
    /\ exchange.req.body.after = "b2b2b2b"
    /\ exchange.response.code = 200
    /\ exchange.response.body.status = "ignored"

(***************************************************************************)
(* C6: a validly signed push event whose payload lacks ref, before, after  *)
(* or repository.html_url gets HTTP 400 with a message naming the missing  *)
(* key, and is not dispatched.                                             *)
(***************************************************************************)
C6_MissingFieldIs400 ==
    /\ exchange.kind = "github"
    /\ ValidlySigned(exchange.req)
    /\ exchange.req.event = "push"
    /\ exchange.req.body.kind = "dict"
    /\ ~AllFieldsPresent(exchange.req.body)
    => /\ exchange.response.code = 400
       /\ exchange.response.body.key # None
       /\ exchange.sent = <<>>

(***************************************************************************)
(* C7: only the event type push can lead to a dispatch; a validly signed   *)
(* request of another event type (ping included) is answered with HTTP 200 *)
(* and not dispatched.  As claimed: every such request.  As amended: every *)
(* such request whose body parses to a non-empty JSON value.               *)
(***************************************************************************)
OnlyPushDispatched ==
    \A run \in GithubRuns :
        run.req.event # "push" => run.sent = <<>> /\ run.done

C7_OtherEventsAcknowledged ==
    /\ OnlyPushDispatched
    /\ exchange.kind = "github"
       /\ ValidlySigned(exchange.req)
       /\ exchange.req.event # "push"
       => exchange.response.code = 200

C7_OtherEventsWithJsonAcknowledged ==
    /\ OnlyPushDispatched
    /\ exchange.kind = "github"
       /\ ValidlySigned(exchange.req)
       /\ exchange.req.event # "push"
       /\ exchange.req.body.kind \in {"nondict", "dict"}
       => exchange.response.code = 200

\* a validly signed, complete payload arrived as an `issues` event
C7_Witness ==
    /\ exchange.kind = "github"
    /\ TokenConfigured
    /\ ValidlySigned(exchange.req)
    /\ exchange.req.event = "issues"
    /\ AllFieldsPresent(exchange.req.body)
    /\ exchange.req.body.before = "a1a1a1a"
    /\ exchange.req.body.after = "b2b2b2b"
    /\ exchange.response.code = 200
    /\ exchange.sent = <<>>

(***************************************************************************)
(* C8: a validly signed push event with the four required fields and       *)
(* non-zero hashes causes exactly one POST to the kickoff URL whose inputs *)
(* are the payload's values unchanged, and a successful answer gives HTTP  *)
(* 200 carrying the downstream JSON.  As claimed: always, with inputs      *)
(* {repository_url, ref, before, after}.  As amended: when KICKOFF_TOKEN   *)
(* is configured, with inputs {repository_url, ref, before, after,         *)
(* verbose: true}.                                                         *)
(***************************************************************************)
PayloadInputs(body) ==
    [repository_url |-> body.html_url, ref |-> body.ref,
     before |-> body.before, after |-> body.after]

PayloadInputsVerbose(body) ==
    [repository_url |-> body.html_url, ref |-> body.ref,
     before |-> body.before, after |-> body.after, verbose |-> TRUE]

\* the downstream JSON is echoed once the kickoff service answered 2xx with JSON
DownstreamEchoed(run) ==
    run.done /\ exchange.answer.kind = "2xx_json"
    => /\ exchange.response.code = 200
       /\ exchange.response.body.kickoff_response = exchange.answer.json

C8_PushDispatchedOnce ==
    \A run \in GithubRuns :
        AcceptablePush(run.req)
        => /\ Len(run.sent) = 1
           /\ run.sent[1].url = ConfiguredUrl
           /\ DOMAIN run.sent[1].inputs = DOMAIN PayloadInputs(run.req.body)
           /\ run.sent[1].inputs = PayloadInputs(run.req.body)
           /\ DownstreamEchoed(run)

C8_PushDispatchedOnceWithToken ==
    \A run \in GithubRuns :
        AcceptablePush(run.req) /\ TokenConfigured
        => /\ Len(run.sent) = 1
           /\ run.sent[1].url = ConfiguredUrl
           /\ run.sent[1].inputs = PayloadInputsVerbose(run.req.body)
           /\ DownstreamEchoed(run)

C8_Witness ==
    /\ exchange.kind = "github"
    /\ AcceptablePush(exchange.req)
    /\ exchange.req.body.ref = "refs/heads/dev"
    /\ exchange.answer.kind = "2xx_json"
    /\ exchange.answer.json = "{run_id:2}"
    /\ exchange.response.code = 200
    /\ Len(exchange.sent) = 1

(***************************************************************************)
(* C9: every outbound kickoff POST of either relay carries the header      *)
(* Authorization: Bearer <KICKOFF_TOKEN> with the configured token, the    *)
(* relay's fixed crew name and wait = false.                               *)
(***************************************************************************)
C9_PostShape ==
    \A p \in AllSent :
        /\ TokenConfigured
        /\ p.Authorization = <<"Bearer", environ.KICKOFF_TOKEN>>
        /\ p.crew = (IF relay = "github" THEN "ComponentDocumentationCrew"
                     ELSE "SalesCrew")
        /\ p.wait = FALSE

\* a Slack dispatch thread has its POST in flight
C9_Witness ==
    /\ relay = "slack"
    /\ \E s \in Slots : calls[s].pc = "posting" /\ Len(calls[s].sent) = 1

(***************************************************************************)
(* C10: a Slack event_callback whose channel is non-empty and not in the   *)
(* allow-list starts no dispatch thread, whatever the inner event holds.   *)
(***************************************************************************)
C10_DisallowedChannelNotDispatched ==
    /\ exchange.kind = "slack"
    /\ exchange.req.body.kind = "dict"
    /\ exchange.req.body.type = "event_callback"
    /\ exchange.req.body.channel \notin {Absent, "", "C08NA2E9T0W"}
    => exchange.thread = 0

\* a user message that an allowed channel would have dispatched
C10_Witness ==
    /\ exchange.kind = "slack"
    /\ TokenConfigured
    /\ exchange.req.body.type = "event_callback"
    /\ exchange.req.body.channel = "C0OTHER"
    /\ exchange.req.body.event.kind = "dict"
    /\ exchange.req.body.event.type = "message"
    /\ exchange.req.body.event.text = "hi"
    /\ exchange.req.body.event.bot_id = Absent
    /\ exchange.thread = 0

(***************************************************************************)
(* C11: a Slack message event with bot_id set never triggers a kickoff     *)
(* dispatch, in any channel and with any text.                             *)
(***************************************************************************)
C11_BotMessageNotDispatched ==
    /\ exchange.kind = "slack"
    /\ exchange.req.body.kind = "dict"
    /\ exchange.req.body.event.kind = "dict"
    /\ exchange.req.body.event.bot_id \notin {Absent, ""}
    => exchange.thread = 0

\* a bot message that would have been dispatched had a user sent it
C11_Witness ==
    /\ exchange.kind = "slack"
    /\ TokenConfigured
    /\ exchange.req.body.type = "event_callback"
    /\ exchange.req.body.channel = "C08NA2E9T0W"
    /\ exchange.req.body.event.kind = "dict"
    /\ exchange.req.body.event.type = "message"
    /\ exchange.req.body.event.text = "hi"
    /\ exchange.req.body.event.bot_id = "B1"
    /\ exchange.response.code = 200
    /\ exchange.thread = 0

(***************************************************************************)
(* C12: on POST /slack/events a dispatch thread is started only for an     *)
(* event_callback from an allowed channel whose inner event is a message   *)
(* with non-empty text and no bot_id; an allowed-channel event_callback    *)
(* that fails the type, text or bot_id condition is answered with HTTP 200 *)
(* and not dispatched.                                                     *)
(***************************************************************************)
\* the inner event is a user message: type "message", text, no bot_id
UserMessage(event) ==
    /\ event.kind = "dict"
    /\ event.type = "message"
    /\ event.text \notin {Absent, ""}
    /\ event.bot_id \in {Absent, ""}

AllowedEventCallback(body) ==
    /\ body.kind = "dict"
    /\ body.type = "event_callback"
    /\ body.channel = "C08NA2E9T0W"

C12_DispatchOnlyUserMessages ==
    exchange.kind = "slack"
    => /\ exchange.thread # 0
          => /\ AllowedEventCallback(exchange.req.body)
             /\ UserMessage(exchange.req.body.event)
       /\ AllowedEventCallback(exchange.req.body)
          /\ ~UserMessage(exchange.req.body.event)
          => /\ exchange.response.code = 200
             /\ exchange.thread = 0

(***************************************************************************)
(* C13: a valid but uninteresting Slack event (an event_callback from a    *)
(* channel outside the allow-list, or a bot message) is answered with HTTP *)
(* 200 and nothing is dispatched.                                          *)
(***************************************************************************)
C13_IgnoredSlackEventIs200 ==
    /\ exchange.kind = "slack"
    /\ exchange.req.body.kind = "dict"
    /\ exchange.req.body.type = "event_callback"
    /\ exchange.req.body.event.kind = "dict"
    /\ \/ exchange.req.body.channel # "C08NA2E9T0W"
       \/ exchange.req.body.event.bot_id \notin {Absent, ""}
    => /\ exchange.response.code = 200
       /\ exchange.thread = 0

(***************************************************************************)
(* C14: a url_verification body with a non-empty challenge c is answered   *)
(* with HTTP 200 and the body {"challenge": c}, whatever its other fields; *)
(* one without a challenge is answered with HTTP 400; neither starts a     *)
(* dispatch.                                                               *)
(***************************************************************************)
C14_ChallengeEchoed ==
    /\ exchange.kind = "slack"
    /\ exchange.req.body.kind = "dict"
    /\ exchange.req.body.type = "url_verification"
    => LET c == exchange.req.body.challenge IN
       /\ exchange.thread = 0
       /\ c \notin {Absent, ""}
          => exchange.response = Response(200, [Json(None, "") EXCEPT !.challenge = c])
       /\ c \in {Absent, ""}
          => /\ exchange.response.code = 400
             /\ exchange.response.body.challenge = None

\* a challenge arrives in a body that also looks like an accepted message
C14_Witness ==
    /\ exchange.kind = "slack"
    /\ exchange.req.body.kind = "dict"
    /\ exchange.req.body.type = "url_verification"
    /\ exchange.req.body.challenge = "abc123"
    /\ exchange.req.body.channel = "C08NA2E9T0W"
    /\ exchange.req.body.event.kind = "dict"
    /\ exchange.req.body.event.type = "message"
    /\ exchange.req.body.event.text = "hi"
    /\ exchange.req.body.event.bot_id = Absent
    /\ exchange.response.code = 200
    /\ exchange.response.body.challenge = "abc123"
    /\ \A s \in Slots : calls[s] = Idle

(***************************************************************************)
(* C15: every response of POST /slack/events is HTTP 200 or HTTP 400; a    *)
(* non-JSON request and a JSON body of a type other than url_verification  *)
(* and event_callback get 400; no request answered with 400 has started a  *)
(* dispatch thread.                                                        *)
(***************************************************************************)
C15_SlackResponses200Or400 ==
    exchange.kind = "slack"
    => /\ exchange.response.code \in {200, 400}
       /\ exchange.req.body.kind = "nonjson" => exchange.response.code = 400
       /\ /\ exchange.req.body.kind = "dict"
          /\ exchange.req.body.type \notin {"url_verification", "event_callback"}
          => exchange.response.code = 400
       /\ exchange.response.code = 400 => exchange.thread = 0

(***************************************************************************)
(* C16: on the Slack path the handler answers an accepted event with HTTP  *)
(* 200 without waiting for the dispatch thread: the step that starts the   *)
(* thread also completes the exchange with the 200 response, before the    *)
(* POST has started, and no later step of the thread (a skipped dispatch,  *)
(* the POST, its success or its failure) touches the response.             *)
(***************************************************************************)
C16_ResponseDoesNotWait ==
    [][relay = "slack"
       => \A s \in Slots :
            /\ calls[s].pc \in {"idle", "done"} /\ calls'[s].pc = "started"
               => /\ exchange'.kind = "slack"
                  /\ exchange'.thread = s
                  /\ exchange'.response = Response(200, Json(None, ""))
                  /\ calls'[s].sent = <<>>
            /\ calls[s].pc \in {"started", "posting"} /\ calls'[s] # calls[s]
               => exchange' = exchange]_vars

\* the response is out while the thread's POST is still in flight
C16_Witness ==
    /\ exchange.kind = "slack"
    /\ exchange.thread # 0
    /\ exchange.response.code = 200
    /\ calls[exchange.thread].pc = "posting"
    /\ Len(calls[exchange.thread].sent) = 1

(***************************************************************************)
(* C17: for a Slack event_callback in the allowed channel with event.type  *)
(* "message", non-empty text t and no bot_id, exactly one outbound kickoff *)
(* POST is eventually issued, with inputs.initial_message = t.             *)
(***************************************************************************)
UrlConfigured == ConfiguredUrl \notin {None, ""}

\* the thread of slot s has issued its one POST, carrying t
PostedOnce(s, t) ==
    /\ calls[s].pc \in {"posting", "done"}
    /\ Len(calls[s].sent) = 1
    /\ calls[s].sent[1].inputs.initial_message = t
    /\ calls[s].sent[1].url = ConfiguredUrl

\* the exchange is an accepted user message with text t
AcceptedMessage(t) ==
    /\ exchange.kind = "slack"
    /\ AllowedEventCallback(exchange.req.body)
    /\ UserMessage(exchange.req.body.event)
    /\ exchange.req.body.event.text = t

C18_DispatcherNeverRaises ==
    /\ \A answer \in Answers : kickoff_result(answer).raised = None
    /\ exchange.kind = "github" /\ exchange.answer # NoAnswer
       => LET ret == kickoff_result(exchange.answer) IN
          /\ exchange.response.code = IF ret.success THEN 200 ELSE 500
          /\ exchange.response.body.message =
                IF ret.success THEN "Crew kickoff triggered"
                ELSE "Failed to trigger crew kickoff"
          /\ ~ret.success => exchange.response.body.details = ret.result
          /\ exchange.response # UnexpectedError
    /\ relay = "slack"
       => \A s \in Slots :
            calls[s].pc = "done" => calls[s].log \in {"info: successful", "error"}

\* response.json() raised a plain ValueError and the handler answered with
\* the dispatcher's pair
C18_Witness ==
    /\ exchange.kind = "github"
    /\ exchange.answer.kind = "2xx_other"
    /\ exchange.answer.json_raises = "ValueError"
    /\ exchange.response.code = 500
    /\ exchange.response.body.message = "Failed to trigger crew kickoff"
    /\ exchange.response.body.details = "An unexpected error occurred"

(***************************************************************************)
(* C19: on the GitHub path dispatch success is exactly an HTTP 2xx answer  *)
(* of the kickoff service: for an accepted push event the inbound response *)
(* is HTTP 200 with status "success" if and only if the outbound POST      *)
(* returned a 2xx status.                                                  *)
(***************************************************************************)
C19_SuccessIffDownstream2xx ==
    exchange.kind = "github" /\ AcceptablePush(exchange.req)
    => ((exchange.response.code = 200 /\ exchange.response.body.status = "success")
        <=> exchange.answer.kind \in {"2xx_json", "2xx_other"})

(***************************************************************************)
(* C20: on POST /webhook every response status is one of 200, 400, 403,    *)
(* 500; HTTP 500 is returned exactly when a kickoff dispatch for the       *)
(* request failed (network error, timeout, non-2xx; an accepted push that  *)
(* cannot be dispatched for want of a token counts as failed); malformed   *)
(* input is answered with 400, never 500.                                  *)
(***************************************************************************)
DispatchFailed ==
    \/ exchange.answer.kind \in {"http_error", "connection_error", "timeout"}
    \/ AcceptablePush(exchange.req) /\ ~TokenConfigured

\* a signed request whose body is no JSON object, or a signed push that
\* lacks one of the required fields
MalformedInput(req) ==
    /\ ValidlySigned(req)
    /\ \/ req.body.kind # "dict"
       \/ req.event = "push" /\ ~AllFieldsPresent(req.body)

C20_GithubStatusCodes ==
    exchange.kind = "github"
    => /\ exchange.response.code \in {200, 400, 403, 500}
       /\ exchange.response.code = 500 <=> DispatchFailed
       /\ MalformedInput(exchange.req) /\ exchange.req.event = "push"
          => exchange.response.code = 400

(***************************************************************************)
(* C21: KICKOFF_URL has a default on both relays: with KICKOFF_URL unset   *)
(* and KICKOFF_TOKEN set, an accepted event on the GitHub relay and an     *)
(* accepted event on the Slack relay each lead to an outbound POST to the  *)
(* default kickoff endpoint.                                               *)
(***************************************************************************)
UrlUnset == environ.KICKOFF_URL = Absent

\* the accepted push of every GitHub run was posted to the default endpoint
GithubPostsToDefault ==
    \A run \in GithubRuns :
        AcceptablePush(run.req)
        => Len(run.sent) = 1 /\ run.sent[1].url = DEFAULT_KICKOFF_URL

\* as stated: the Slack thread posts to the default endpoint as well
C21_DefaultUrlOnBothRelays ==
    UrlUnset /\ TokenConfigured
    => /\ GithubPostsToDefault
       /\ relay = "slack"
          => \A s \in Slots :
               calls[s].pc = "done"
               => Len(calls[s].sent) = 1 /\ calls[s].sent[1].url = DEFAULT_KICKOFF_URL

\* as it holds: only webhook_server.py has the default; the Slack thread of
\* an accepted event returns without a POST
C21_DefaultUrlOnGithubOnly ==
    UrlUnset /\ TokenConfigured
    => /\ GithubPostsToDefault
       /\ relay = "slack"
          => \A s \in Slots :
               calls[s].pc \in {"started", "posting", "done"}
               => /\ calls[s].sent = <<>>
                  /\ calls[s].pc # "posting"
                  /\ calls[s].pc = "done" => calls[s].log = "error"

\* an accepted push went to the default endpoint
C21_Witness ==
    /\ UrlUnset
    /\ TokenConfigured
    /\ exchange.kind = "github"
    /\ AcceptablePush(exchange.req)
    /\ Len(exchange.sent) = 1
    /\ exchange.sent[1].url = DEFAULT_KICKOFF_URL
    /\ exchange.answer # NoAnswer

(***************************************************************************)
(* C22: when KICKOFF_TOKEN is not configured neither relay ever issues an  *)
(* outbound POST, and the failure is an error outcome, not a crash: an     *)
(* accepted push gets HTTP 500 with an error body, and an accepted Slack   *)
(* event still gets HTTP 200 while its thread returns without sending.     *)
(***************************************************************************)
C22_NoTokenNoPost ==
    ~TokenConfigured
    => /\ AllSent = {}
       /\ \A s \in Slots : calls[s].pc # "posting"
       /\ exchange.kind = "github" /\ AcceptablePush(exchange.req)
          => /\ exchange.response.code = 500
             /\ exchange.response.body.status = "error"
             /\ exchange.response.body.message = "Failed to trigger crew kickoff"
             /\ exchange.response.body.details = "Kickoff token not configured on server."
             /\ exchange.answer = NoAnswer
       /\ \A t \in {"hi", "yo"} :
            AcceptedMessage(t)
            => /\ exchange.response = Response(200, Json(None, ""))
               /\ exchange.thread # 0
               /\ calls[exchange.thread].text = t
       /\ relay = "slack"
          => \A s \in Slots :
               calls[s].pc = "done" => calls[s].sent = <<>> /\ calls[s].log = "error"

\* an accepted push was answered 500 without a POST
C22_Witness ==
    /\ ~TokenConfigured
    /\ exchange.kind = "github"
    /\ AcceptablePush(exchange.req)
    /\ exchange.response.code = 500
    /\ exchange.sent = <<>>

(***************************************************************************)
(* C23: on the GitHub path the dispatch is synchronous: for an accepted    *)
(* push the inbound response is never sent before the outbound POST has    *)
(* returned, failed or timed out.                                          *)
(***************************************************************************)
C23_ResponseAfterPost ==
    /\ [](exchange.kind = "github" /\ AcceptablePush(exchange.req) /\ TokenConfigured
          => /\ Len(exchange.sent) = 1
             /\ exchange.answer \in Answers)
    /\ [][relay = "github"
          => \A s \in Slots :
               /\ calls[s].pc # "posting" /\ calls'[s].pc = "posting"
                  => exchange' = NoExchange
               /\ calls[s].pc = "posting" /\ calls'[s].pc # "posting"
                  => /\ exchange'.kind = "github"
                     /\ exchange'.req = calls[s].req
                     /\ exchange'.sent = calls[s].sent
                     /\ exchange'.answer \in Answers]_vars

\* the response to an accepted push came after its POST timed out
C23_Witness ==
    /\ exchange.kind = "github"
    /\ AcceptablePush(exchange.req)
    /\ Len(exchange.sent) = 1
    /\ exchange.answer.kind = "timeout"
    /\ exchange.response.code = 500

(***************************************************************************)
(* C24: the relays keep no record of past events and do not de-duplicate:  *)
(* delivering the same accepted push event n times causes n outbound       *)
(* kickoff POSTs, so a redelivery yields a duplicate downstream kickoff.   *)
(***************************************************************************)
\* the POST an accepted push is turned into
PostOf(req) == KickoffPost(PayloadInputsVerbose(req.body))

\* as stated: as many POSTs of a push as deliveries of it
C24_NDeliveriesNPosts ==
    /\ BagCardinality(posts) = BagCardinality(deliveries)
    /\ \A req \in BagToSet(deliveries) :
         CopiesIn(PostOf(req), posts) = CopiesIn(req, deliveries)

\* as it holds: with KICKOFF_TOKEN configured every delivery of a push is
\* posted, repeats included; without it no delivery is
C24_NDeliveriesNPostsWithToken ==
    /\ TokenConfigured => C24_NDeliveriesNPosts
    /\ ~TokenConfigured => posts = EmptyBag
    /\ \A req \in BagToSet(deliveries) : AcceptablePush(req)

\* one push was delivered three times and posted three times
C24_Witness ==
    /\ TokenConfigured
    /\ \E req \in SignedPushes :
         /\ CopiesIn(req, deliveries) = 3
         /\ CopiesIn(PostOf(req), posts) = 3
         /\ BagCardinality(posts) = 3

(***************************************************************************)
(* C25: requests do not interfere: under any interleaving of inbound       *)
(* requests and dispatch threads, the response of a request and the        *)
(* payload of the POST it causes depend only on that request and on the    *)
(* configuration read at process start; each of N concurrently accepted    *)
(* Slack events produces its own POST carrying its own message text.       *)
(***************************************************************************)
C25_RequestsDoNotInterfere ==
    /\ [](/\ \A run \in GithubRuns : Len(run.sent) = 1 => run.sent[1] = PostOf(run.req)
          /\ exchange.kind = "github"
             => exchange.response =
                    IF exchange.answer = NoAnswer
                    THEN github_handler(exchange.req).response
                    ELSE kickoff_response(kickoff_result(exchange.answer))
          /\ exchange.kind = "slack"
             => /\ exchange.response = slack_handler(exchange.req).response
                /\ exchange.thread # 0
                   => calls[exchange.thread].text = exchange.req.body.event.text
          /\ relay = "slack"
             => \A s \in Slots :
                  calls[s].pc \in {"posting", "done"} /\ calls[s].sent # <<>>
                  => calls[s].sent = <<KickoffPost([initial_message |-> calls[s].text,
                                                    verbose |-> TRUE])>>)
    /\ [][\A s, t \in Slots :
            s # t /\ calls'[s] # calls[s]
            => /\ calls'[t] = calls[t]
               /\ calls[s].pc \in {"started", "posting"} /\ relay = "slack"
                  => calls'[s].text = calls[s].text]_vars

\* two accepted Slack events are in flight at once, each with its own text
C25_Witness ==
    /\ relay = "slack"
    /\ calls[1].pc = "posting"
    /\ calls[2].pc = "posting"
    /\ calls[1].sent[1].inputs.initial_message = "yo"
    /\ calls[2].sent[1].inputs.initial_message = "hi"
    /\ exchange.kind = "slack"
    /\ exchange.thread = 2

(***************************************************************************)
(* C26: every background dispatch thread started on the Slack path         *)
(* terminates (the POST returns, fails or hits its timeout), nothing       *)
(* cancels it once started, and its failure is scoped to that thread:      *)
(* after a dispatch failure the relay still accepts and dispatches events. *)
(***************************************************************************)
\* the relay takes a message and starts a thread for it
accepts_message ==
    /\ slack_message_events
    /\ exchange'.thread # 0
    /\ exchange'.response.code = 200

SomeThreadFailed ==
    \E s \in Slots : calls[s].pc = "done" /\ calls[s].log = "error"

C26_ThreadsTerminate ==
    /\ \A s \in Slots : calls[s].pc \in {"started", "posting"} ~> calls[s].pc = "done"
    /\ [][\A s \in Slots :
            /\ calls[s].pc = "started" => calls'[s].pc \in {"started", "posting", "done"}
            /\ calls[s].pc = "posting" => calls'[s].pc \in {"posting", "done"}
            /\ calls[s].pc \in {"started", "posting"} => calls'[s].text = calls[s].text]_vars
    /\ [](SomeThreadFailed /\ exchange = NoExchange => ENABLED accepts_message)

\* a thread has failed, and an event that came later is being dispatched
C26_Witness ==
    /\ calls[2].pc = "done"
    /\ calls[2].log = "error"
    /\ calls[2].sent # <<>>
    /\ calls[1].pc = "posting"
    /\ exchange.kind = "slack"
    /\ exchange.thread = 1

(***************************************************************************)
(* C27: every crew object that entered an MCP adapter connection in its    *)
(* constructor (LeadManagementCrew, SkillRegistryCrew,                     *)
(* ComponentDocumentationCrew) exits that adapter when the object is       *)
(* destroyed: no opened connection is left unclosed after destruction.     *)
(***************************************************************************)
C27_EnteredAdapterExited ==
    crew.pc = "destroyed" /\ crew.enters > 0 => crew.exits >= crew.enters

(***************************************************************************)
(* C28: for each ComponentDocumentationCrew object the adapter's exit is   *)
(* invoked at most once over the object's lifetime, also when the          *)
(* connection attempt in the constructor fails.                            *)
(***************************************************************************)
C28_ExitAtMostOnce ==
    crew.class = "ComponentDocumentationCrew" => crew.exits <= 1

(***************************************************************************)
(* C29: SkillRegistryCrew.run with operation "hubspot-all" invokes the     *)
(* contact-creation tool before the opportunity-creation tool; if contact  *)
(* creation fails (tool missing or tool error) the opportunity tool is     *)
(* never invoked and the error propagates to the caller; the result holds  *)
(* both outcomes only when both calls succeeded.                           *)
(***************************************************************************)
ContactFails ==
    \/ "hubspot_create_contact" \notin crew.mcp_tools
    \/ crew.tool_results.contact = "ToolError"

OpportunityFails ==
    \/ "hubspot_create_opportunity" \notin crew.mcp_tools
    \/ crew.tool_results.opportunity = "ToolError"

C29_ContactBeforeOpportunity ==
    crew.class = "SkillRegistryCrew" /\ crew.operation = "hubspot-all"
    => /\ crew.invoked \in {<<>>, <<"hubspot_create_contact">>,
                            <<"hubspot_create_contact", "hubspot_create_opportunity">>}
       /\ ContactFails
          => /\ \A i \in 1..Len(crew.invoked) :
                  crew.invoked[i] # "hubspot_create_opportunity"
             /\ crew.outcome.kind = "raise"
             /\ crew.outcome.value =
                    IF "hubspot_create_contact" \notin crew.mcp_tools
                    THEN "HubSpot create contact tool not found in MCP tools"
                    ELSE "ToolError"
       /\ crew.outcome.kind = "return" <=> ~ContactFails /\ ~OpportunityFails
       /\ crew.outcome.kind = "return"
          => /\ crew.invoked = <<"hubspot_create_contact", "hubspot_create_opportunity">>
             /\ crew.outcome.value = [contact |-> crew.tool_results.contact,
                                      opportunity |-> crew.tool_results.opportunity]

\* the contact tool raised although both tools were there
C29_Witness ==
    /\ crew.class = "SkillRegistryCrew"
    /\ crew.operation = "hubspot-all"
    /\ crew.mcp_tools = ToolNames
    /\ crew.tool_results = [contact |-> "ToolError", opportunity |-> "id-2"]
    /\ crew.invoked = <<"hubspot_create_contact">>
    /\ crew.outcome = [kind |-> "raise", value |-> "ToolError"]

(***************************************************************************)
(* C30: SkillRegistryCrew.run invokes no MCP tool on an error path: an     *)
(* unknown operation raises without running any tool, and an operation     *)
(* whose required tool is absent from the loaded tools raises without      *)
(* running any other tool in its place.                                    *)
(***************************************************************************)
ContactNotFound == "HubSpot create contact tool not found in MCP tools"

OpportunityNotFound == "HubSpot create opportunity tool not found in MCP tools"

RunRaised(error) ==
    /\ crew.class = "SkillRegistryCrew"
    /\ crew.operation # None
    /\ crew.outcome.kind = "raise"
    /\ crew.outcome.value = error

\* the tools an operation needs, in the order it runs them
RequiredTools(operation) ==
    IF operation = "hubspot-contact" THEN <<"hubspot_create_contact">>
    ELSE IF operation = "hubspot-opportunity" THEN <<"hubspot_create_opportunity">>
    ELSE IF operation = "hubspot-all"
    THEN <<"hubspot_create_contact", "hubspot_create_opportunity">>
    ELSE <<>>

\* as stated: no tool has run when run raises one of these errors
C30_NoToolOnErrorPath ==
    \A error \in {"Unknown operation", ContactNotFound, OpportunityNotFound} :
        RunRaised(error) => crew.invoked = <<>>

\* as it holds: the tools that ran are a prefix of the operation's own
\* tools, all of them loaded; nothing runs for an unknown operation or a
\* missing contact tool; "hubspot-all" without the opportunity tool has run
\* the contact tool before it raises
C30_NoReplacementTool ==
    crew.class = "SkillRegistryCrew" /\ crew.operation # None
    => /\ Len(crew.invoked) <= Len(RequiredTools(crew.operation))
       /\ \A i \in 1..Len(crew.invoked) :
            /\ crew.invoked[i] = RequiredTools(crew.operation)[i]
            /\ crew.invoked[i] \in crew.mcp_tools
       /\ (\E i \in 1..Len(RequiredTools(crew.operation)) :
              RequiredTools(crew.operation)[i] \notin crew.mcp_tools)
          => crew.outcome.kind = "raise"
       /\ RequiredTools(crew.operation) = <<>> => RunRaised("Unknown operation")
       /\ RunRaised("Unknown operation") => crew.invoked = <<>>
       /\ RunRaised(ContactNotFound) => crew.invoked = <<>>
       /\ RunRaised(OpportunityNotFound)
          => crew.invoked = IF crew.operation = "hubspot-all"
                            THEN <<"hubspot_create_contact">>
                            ELSE <<>>

\* the contact tool is missing, another tool is loaded, nothing has run
C30_Witness ==
    /\ crew.class = "SkillRegistryCrew"
    /\ crew.operation = "hubspot-contact"
    /\ crew.mcp_tools = {"hubspot_search", "hubspot_create_opportunity"}
    /\ crew.outcome = [kind |-> "raise", value |-> ContactNotFound]
    /\ crew.invoked = <<>>

====
